---- MODULE Spec2Model ----
(***************************************************************************)
(* Model of Lexical-Analysis.py: load_data, preprocess_data,               *)
(* retrieve_related_expressions and main.                                  *)
(*                                                                         *)
(* A Python str is a sequence of one-character strings.  A character       *)
(* outside ASCII is written by its code point ("U+00C9").  A cell of the   *)
(* content column is a record [kind, s]: kind is the Python type of the    *)
(* value ("str", "float" for NaN, "int") and s is what str(value) returns. *)
(***************************************************************************)
EXTENDS Naturals, Integers, Sequences, FiniteSets, TLC

VARIABLES
    pc,                     \* position in main / retrieve_related_expressions
    file,                   \* the input file at `path`
    df,                     \* the DataFrame: a sequence of rows
    user_input,             \* the line read by input()
    reference_expressions,  \* the list of patterns
    expr_idx,               \* position of `expression` in reference_expressions
    row_idx,                \* position of `row` in data_frame.iterrows()
    compiled_regex,         \* the compiled pattern of the current expression
    results,                \* the list `results`
    origin,                 \* history: for each element of results, the loop
                            \* indices and the list `matches` it was built from
    related_expressions_df, \* the DataFrame returned by the retrieval
    console,                \* what was printed
    exported,               \* the two output files, <<>> while not written
    error                   \* the exception that ended the run, or "none"

vars == <<pc, file, df, user_input, reference_expressions, expr_idx, row_idx,
          compiled_regex, results, origin, related_expressions_df, console,
          exported, error>>

----------------------------------------------------------------------------
(* Bounds *)

MaxLen == 2
MaxRows == 2
MaxTextLen == 4
MaxFragLen == 2
MaxPatterns == 2

----------------------------------------------------------------------------
(* Characters and strings *)

UpperCase ==
    <<"A","B","C","D","E","F","G","H","I","J","K","L","M",
      "N","O","P","Q","R","S","T","U","V","W","X","Y","Z">>

LowerCase ==
    <<"a","b","c","d","e","f","g","h","i","j","k","l","m",
      "n","o","p","q","r","s","t","u","v","w","x","y","z">>

Digits == {"0","1","2","3","4","5","6","7","8","9"}

\* what \s matches in a str pattern (U+00A0 is the no-break space)
Whitespace == {" ", "\t", "\n", "\r", "U+00A0"}

Range(s) == {s[k] : k \in DOMAIN s}

UpperSet == Range(UpperCase)
LowerSet == Range(LowerCase)

IsLowerAscii(c) == c \in LowerSet

Strings(chars, n) == UNION {[1..k -> chars] : k \in 0..n}

RECURSIVE Flatten(_)
Flatten(ss) == IF ss = <<>> THEN <<>> ELSE Head(ss) \o Flatten(Tail(ss))

\* str.lower() of one character: a sequence, since U+0130 lowers to two
LowerChar(c) ==
    IF c \in UpperSet
    THEN <<LowerCase[CHOOSE k \in DOMAIN UpperCase : UpperCase[k] = c]>>
    ELSE CASE c = "U+00C9" -> <<"U+00E9">>
           [] c = "U+212A" -> <<"k">>
           [] c = "U+0130" -> <<"i", "U+0307">>
           [] OTHER -> <<c>>

\* Python str.lower()
StrLower(s) == Flatten([k \in DOMAIN s |-> LowerChar(s[k])])

----------------------------------------------------------------------------
(* Cells of the content column *)

Str(s) == [kind |-> "str", s |-> s]
NaN == [kind |-> "float", s |-> <<"n","a","n">>]
Int7 == [kind |-> "int", s |-> <<"7">>]

\* Python str(x)
PyStr(v) == v.s

\* pandas Series.str.lower(): a value that is not a str becomes NaN
SeriesStrLower(v) == IF v.kind = "str" THEN Str(StrLower(v.s)) ELSE NaN

\* the .str accessor exists only on a column that holds strings (dtype object)
HasStrAccessor(rows) == \E k \in DOMAIN rows : rows[k].content.kind = "str"

\* Mutant: the class written with \w, [^\w\s], which keeps the underscore
RemovedNonWord(c) ==
    ~(c \in LowerSet \/ c \in Digits \/ c \in Whitespace \/ c = "_")

\* the character class [^a-z0-9\s] of line 43
Removed(c) == ~(IsLowerAscii(c) \/ c \in Digits \/ c \in Whitespace)

\* re.sub(r'[^a-z0-9\s]', '', s)
RECURSIVE ReSub(_)
ReSub(s) ==
    IF s = <<>> THEN <<>>
    ELSE IF Removed(Head(s)) THEN ReSub(Tail(s))
         ELSE <<Head(s)>> \o ReSub(Tail(s))

\* lines 42-43 for one cell
CleanCell(v) == ReSub(PyStr(SeriesStrLower(v)))

\* preprocess_data: the frame with the column cleaned_content added
preprocess_data(rows) ==
    [k \in DOMAIN rows |->
        [cleaned_content |-> CleanCell(rows[k].content)] @@ rows[k]]

----------------------------------------------------------------------------
(* Printed texts *)

\* line 24
MsgUnsupported ==
    <<"U","n","s","u","p","p","o","r","t","e","d"," ","f","i","l","e"," ",
      "f","o","r","m","a","t","."," ","O","n","l","y"," ",".","c","s","v",
      " ","a","n","d"," ",".","t","x","t"," ","f","i","l","e","s"," ","a",
      "r","e"," ","s","u","p","p","o","r","t","e","d",".">>

\* line 27
MsgNoContent ==
    <<"T","h","e"," ","i","n","p","u","t"," ","f","i","l","e"," ","m","u",
      "s","t"," ","c","o","n","t","a","i","n"," ","a"," ","'","c","o","n",
      "t","e","n","t","'"," ","c","o","l","u","m","n"," ","o","r"," ","b",
      "e"," ","a"," ","t","e","x","t"," ","f","i","l","e",".">>

\* line 85
MsgErrorLoading ==
    <<"E","r","r","o","r"," ","l","o","a","d","i","n","g"," ","f","i","l",
      "e",":"," ">>

\* line 94
MsgPreExported ==
    <<"P","r","e","p","r","o","c","e","s","s","e","d"," ","d","a","t","a",
      " ","e","x","p","o","r","t","e","d"," ","t","o"," ","p","r","e","p",
      "r","o","c","e","s","s","e","d","_","d","a","t","a",".","t","x",
      "t">>

\* line 73
MsgInvalidRegex ==
    <<"I","n","v","a","l","i","d"," ","r","e","g","u","l","a","r"," ","e",
      "x","p","r","e","s","s","i","o","n",":"," ">>

\* line 107
MsgResExported ==
    <<"R","e","l","a","t","e","d"," ","e","x","p","r","e","s","s","i","o",
      "n","s"," ","e","x","p","o","r","t","e","d"," ","t","o"," ","r","e",
      "l","a","t","e","d","_","e","x","p","r","e","s","s","i","o","n","s",
      "_","r","e","s","u","l","t","s",".","c","s","v">>

\* re.error.msg of an unclosed group
MsgUnterminated ==
    <<"m","i","s","s","i","n","g"," ",")",","," ","u","n","t","e","r","m",
      "i","n","a","t","e","d"," ","s","u","b","p","a","t","t","e","r",
      "n">>

\* str(re.error) appends the position
MsgAtPosition ==
    <<" ","a","t"," ","p","o","s","i","t","i","o","n"," ">>

DigitChars == <<"0","1","2","3","4","5","6","7","8","9">>

\* str(n) of a natural number
RECURSIVE Decimal(_)
Decimal(n) ==
    IF n < 10 THEN <<DigitChars[n + 1]>>
    ELSE Decimal(n \div 10) \o <<DigitChars[(n % 10) + 1]>>

----------------------------------------------------------------------------
(* load_data *)

TxtFile(lines) == [ext |-> "txt", columns |-> {}, cells |-> lines]
CsvFile(columns, cells) == [ext |-> "csv", columns |-> columns, cells |-> cells]
OtherFile == [ext |-> "docx", columns |-> {}, cells |-> <<>>]

\* a cell pandas.read_csv parses as a number
IsNumericCell(c) == c # <<>> /\ \A k \in DOMAIN c : c[k] \in Digits

\* pandas.read_csv's type inference for one column: a column of numbers and
\* empty cells is numeric (float when a cell is empty); any other column holds
\* str values, with NaN for its empty cells
ReadCsvColumn(cells) ==
    IF \A k \in DOMAIN cells : cells[k] = <<>> \/ IsNumericCell(cells[k])
    THEN IF \E k \in DOMAIN cells : cells[k] = <<>>
         THEN [k \in DOMAIN cells |->
                  IF cells[k] = <<>> THEN NaN
                  ELSE [kind |-> "float", s |-> cells[k] \o <<".", "0">>]]
         ELSE [k \in DOMAIN cells |-> [kind |-> "int", s |-> cells[k]]]
    ELSE [k \in DOMAIN cells |-> IF cells[k] = <<>> THEN NaN ELSE Str(cells[k])]

\* the text_id the k-th data row of a csv file carries
CsvTextId(k) == 10 + k

\* line 18: pd.read_csv
read_csv(f) ==
    LET content == ReadCsvColumn(f.cells)
    IN  [k \in DOMAIN f.cells |->
            IF "text_id" \in f.columns
            THEN [text_id |-> CsvTextId(k), content |-> content[k]]
            ELSE [content |-> content[k]]]

\* lines 20-22: one row per line, text_id from 1
read_txt(f) ==
    [k \in DOMAIN f.cells |-> [text_id |-> k, content |-> Str(f.cells[k])]]

\* lines 17-27: whether load_data raises ValueError
LoadRaises(f) ==
    \/ f.ext \notin {"csv", "txt"}
    \/ f.ext = "csv" /\ "content" \notin f.columns

\* lines 24, 27: the message of that ValueError
LoadMessage(f) ==
    IF f.ext \notin {"csv", "txt"} THEN MsgUnsupported ELSE MsgNoContent

\* lines 17-29: the frame load_data returns
load_data(f) == IF f.ext = "csv" THEN read_csv(f) ELSE read_txt(f)

----------------------------------------------------------------------------
(* Patterns: line 98, re.compile, findall *)

\* str.strip()
RECURSIVE LStrip(_)
LStrip(s) ==
    IF s # <<>> /\ Head(s) \in Whitespace THEN LStrip(Tail(s)) ELSE s

RECURSIVE RStrip(_)
RStrip(s) ==
    IF s # <<>> /\ s[Len(s)] \in Whitespace
    THEN RStrip(SubSeq(s, 1, Len(s) - 1)) ELSE s

Strip(s) == RStrip(LStrip(s))

\* str.split(','): the items between the commas, at least one
RECURSIVE SplitFrom(_, _)
SplitFrom(s, item) ==
    IF s = <<>> THEN <<item>>
    ELSE IF Head(s) = "," THEN <<item>> \o SplitFrom(Tail(s), <<>>)
         ELSE SplitFrom(Tail(s), Append(item, Head(s)))

Split(s) == SplitFrom(s, <<>>)

\* the parts of the raw f-string of line 98 around the fragment
WrapPrefix == <<"\\", "b", "\\", "w", "*">>
WrapSuffix == <<"\\", "w", "*", "\\", "b">>

\* line 98: rf"\b\w*{pattern.strip()}\w*\b"
Wrap(fragment) == WrapPrefix \o Strip(fragment) \o WrapSuffix

\* line 98: the list comprehension over user_inputs
WrapAll(items) == [k \in DOMAIN items |-> Wrap(items[k])]

\* the text between the two wrappers of a pattern built by line 98
Fragment(pattern) ==
    SubSeq(pattern, Len(WrapPrefix) + 1, Len(pattern) - Len(WrapSuffix))

\* re.compile on a pattern of line 98 whose fragment has no metacharacter but
\* "(": an unclosed group raises re.error at the innermost "("
CompileRaises(pattern) == "(" \in Range(pattern)

\* str(e) of that re.error: the message and the 0-based position
ReErrorStr(pattern) ==
    LET last == CHOOSE k \in DOMAIN pattern :
                    /\ pattern[k] = "("
                    /\ \A m \in DOMAIN pattern : pattern[m] = "(" => m <= k
    IN  MsgUnterminated \o MsgAtPosition \o Decimal(last - 1)

\* line 73: f"Invalid regular expression: {e}"
Diagnostic(pattern) == MsgInvalidRegex \o ReErrorStr(pattern)

\* what \w matches
IsWordChar(c) ==
    \/ IsLowerAscii(c) \/ c \in UpperSet \/ c \in Digits \/ c = "_"
    \/ c \in {"U+00C9", "U+00E9", "U+212A", "U+0130"}

\* whether the character after the first k characters of t is a word character
WordAt(t, k) == k \in 1..Len(t) /\ IsWordChar(t[k])

\* \b after the first p characters of t
Boundary(t, p) == WordAt(t, p) # WordAt(t, p + 1)

\* the longest run \w* can take after the first p characters of t
RECURSIVE WordRun(_, _)
WordRun(t, p) == IF WordAt(t, p + 1) THEN 1 + WordRun(t, p + 1) ELSE 0

Max(S) == CHOOSE x \in S : \A y \in S : y <= x

\* The match of \b\w*F\w*\b that starts after the first p characters of t: the
\* position where it ends, -1 if there is none.  Both \w* are greedy and give
\* characters back one at a time: the first \w* takes the most characters k
\* after which F and the rest match, the second the most characters that end
\* at a \b; with must_advance an empty match is refused.
MatchEnd(t, p, F, must_advance) ==
    LET EndFor(k) ==
            LET q == p + k + Len(F)
            IN  IF q <= Len(t) /\ SubSeq(t, p + k + 1, q) = F
                THEN LET ms == {m \in 0..WordRun(t, q) :
                                   /\ Boundary(t, q + m)
                                   /\ ~(must_advance /\ q + m = p)}
                     IN  IF ms = {} THEN -1 ELSE q + Max(ms)
                ELSE -1
        ks == {k \in 0..WordRun(t, p) : EndFor(k) >= 0}
    IN  IF ~Boundary(t, p) \/ ks = {} THEN -1 ELSE EndFor(Max(ks))

\* the scan of findall from position pos: leftmost match, then on from its
\* end; after an empty match the next one must advance
RECURSIVE FindFrom(_, _, _, _)
FindFrom(t, F, pos, must_advance) ==
    LET Starts == {s \in pos..Len(t) :
                      MatchEnd(t, s, F, must_advance /\ s = pos) >= 0}
    IN  IF Starts = {} THEN <<>>
        ELSE LET s == CHOOSE x \in Starts : \A y \in Starts : x <= y
                 e == MatchEnd(t, s, F, must_advance /\ s = pos)
             IN  <<SubSeq(t, s + 1, e)>> \o FindFrom(t, F, e, e = s)

\* Mutant: the pattern \bF\b, without the two \w*: only a word equal to the
\* fragment matches
FindallExactWord(pattern, text) ==
    SelectSeq(FindFrom(text, Fragment(pattern), 0, FALSE),
              LAMBDA w : w = Fragment(pattern))

\* line 64: compiled_regex.findall(text), the pattern having no group
findall(pattern, text) == FindFrom(text, Fragment(pattern), 0, FALSE)

\* Mutant: ','.join(matches), without the blank
RECURSIVE JoinNoSpace(_)
JoinNoSpace(matches) ==
    IF matches = <<>> THEN <<>>
    ELSE IF Len(matches) = 1 THEN Head(matches)
         ELSE Head(matches) \o <<",">> \o JoinNoSpace(Tail(matches))

\* ', '.join(matches)
RECURSIVE Join(_)
Join(matches) ==
    IF matches = <<>> THEN <<>>
    ELSE IF Len(matches) = 1 THEN Head(matches)
         ELSE Head(matches) \o <<",", " ">> \o Join(Tail(matches))

\* lines 66-71: the dict appended for a row with matches
ResultRow(row, matches, expression) ==
    [text_id |-> row.text_id,
     original_content |-> row.content,
     matched_expressions |-> Join(matches),
     reference_expression |-> expression]

\* line 76: pd.DataFrame(results) takes its columns from the dicts of the
\* list; an empty list gives a frame with no column
ResultColumns ==
    <<"text_id", "original_content", "matched_expressions", "reference_expression">>

DataFrame(rs) ==
    [columns |-> IF rs = <<>> THEN <<>> ELSE ResultColumns, rows |-> rs]

\* DataFrame.to_csv(..., index=False): the header line, then one line per row
to_csv(frame) == [header |-> frame.columns, rows |-> frame.rows]

\* line 93: df[['text_id', 'cleaned_content']]
PreprocessedFrame(rows) ==
    [columns |-> <<"text_id", "cleaned_content">>,
     rows |-> [k \in DOMAIN rows |->
                 [text_id |-> rows[k].text_id,
                  cleaned_content |-> rows[k].cleaned_content]]]

----------------------------------------------------------------------------
(* Inputs *)

\* raw texts over an uppercase letter, a lowercase letter and a blank
BaseChars == {"A", "b", " "}

\* raw texts with the other kinds of character: digit, punctuation,
\* underscore, line end, and letters outside ASCII
ExtraTexts ==
    {<<"A", "!", "7", "_", "b">>,
     <<"U+00C9", "a", "U+00E9">>,
     <<"U+212A", "\n">>,
     <<"U+0130", "U+00A0", "Z">>}

\* the lines of the text files and the cells of the csv files of main
SampleLines ==
    {<<"A", "b", " ", "a", "\n">>, <<"a", "!">>, <<"a", " ", "b">>}

SampleCells == {<<"A", "b", " ", "a">>, <<>>, <<"7">>}

\* what the operator types between two commas
SampleItems ==
    {<<>>, <<"a">>, <<" ", "b", " ">>, <<"a", " ", "b">>, <<"a", "(">>}

\* what the operator types between two commas in the runs of main
MainItems == {<<>>, <<" ", "b", " ">>, <<"a", "(">>}

\* the example of the specification
ExampleText ==
    <<"R","u","n","n","i","n","g"," ","a","n","d"," ","j","u","m","p","e","d">>
ExampleFragment == <<"i", "n", "g">>

\* a text and a fragment with digits
DigitText == <<"A", "7", " ", "7", "b", " ", "b">>
DigitFragment == <<"7">>

SeqsUpTo(S, n) == UNION {[1..k -> S] : k \in 1..n}

\* the files main may find at `path`
Files ==
    {TxtFile(ls) : ls \in SeqsUpTo(SampleLines, MaxRows)}
    \cup {CsvFile(cols, cs) : cols \in {{"text_id", "content"}, {"content"}},
                              cs \in SeqsUpTo(SampleCells, MaxRows)}
    \cup {CsvFile({"text_id"}, <<<<"7">>>>), OtherFile}

\* str.join(',') of the items: the line the operator types
RECURSIVE JoinItems(_)
JoinItems(items) ==
    IF Len(items) = 1 THEN Head(items)
    ELSE Head(items) \o <<",">> \o JoinItems(Tail(items))

InputLines == {JoinItems(items) : items \in SeqsUpTo(MainItems, MaxPatterns)}

\* a frame as a caller of preprocess_data builds it: text_id from 1
FrameOf(cells) == [k \in DOMAIN cells |-> [text_id |-> k, content |-> cells[k]]]

NormCells ==
    {Str(s) : s \in Strings(BaseChars, MaxLen) \cup ExtraTexts} \cup {NaN, Int7}

NormFrames == {FrameOf(cs) : cs \in SeqsUpTo(NormCells, MaxRows)}

\* frames and pattern lists for a direct call of retrieve_related_expressions
MatchFrames ==
    {preprocess_data(load_data(TxtFile(ls))) : ls \in SeqsUpTo(SampleLines, MaxRows)}

MatchPatterns ==
    {<<>>} \cup {WrapAll(items) : items \in SeqsUpTo(SampleItems, MaxPatterns)}

\* one record and one pattern, over all short texts and fragments
FindFrames ==
    {preprocess_data(FrameOf(<<Str(t)>>)) :
        t \in Strings(BaseChars, MaxTextLen) \cup {ExampleText, DigitText}}

FindPatterns ==
    {<<Wrap(f)>> : f \in Strings({"a", "b", "("}, MaxFragLen)
                         \cup {ExampleFragment, DigitFragment}}

----------------------------------------------------------------------------
(* State machine *)

NoFile == <<>>
NoRegex == <<>>
NoFrame == [columns |-> <<>>, rows |-> <<>>]

Idle ==
    /\ user_input = <<>>
    /\ reference_expressions = <<>>
    /\ expr_idx = 0
    /\ row_idx = 0
    /\ compiled_regex = NoRegex
    /\ results = <<>>
    /\ origin = <<>>
    /\ related_expressions_df = NoFrame
    /\ console = <<>>
    /\ exported = [pre |-> NoFile, res |-> NoFile]
    /\ error = "none"

\* main is entered: the file at `path` is any of Files
Init ==
    /\ pc = "load"
    /\ file \in Files
    /\ df = <<>>
    /\ Idle

\* preprocess_data is called on a frame
InitNorm ==
    /\ pc = "preprocess"
    /\ file = OtherFile
    /\ df \in NormFrames
    /\ Idle

\* retrieve_related_expressions is called on patterns and a preprocessed frame
InitMatch ==
    /\ pc = "retrieve"
    /\ file = OtherFile
    /\ df \in MatchFrames
    /\ user_input = <<>>
    /\ reference_expressions \in MatchPatterns
    /\ expr_idx = 0
    /\ row_idx = 0
    /\ compiled_regex = NoRegex
    /\ results = <<>>
    /\ origin = <<>>
    /\ related_expressions_df = NoFrame
    /\ console = <<>>
    /\ exported = [pre |-> NoFile, res |-> NoFile]
    /\ error = "none"

InitFind ==
    /\ pc = "retrieve"
    /\ file = OtherFile
    /\ df \in FindFrames
    /\ user_input = <<>>
    /\ reference_expressions \in FindPatterns
    /\ expr_idx = 0
    /\ row_idx = 0
    /\ compiled_regex = NoRegex
    /\ results = <<>>
    /\ origin = <<>>
    /\ related_expressions_df = NoFrame
    /\ console = <<>>
    /\ exported = [pre |-> NoFile, res |-> NoFile]
    /\ error = "none"

\* an exception leaves main: the run ends with `error`
Raise(e) ==
    /\ pc' = "fatal"
    /\ error' = e

\* lines 82-86: load_data raises, main prints the message and returns
LoadError ==
    /\ pc = "load"
    /\ LoadRaises(file)
    /\ Raise("LoadError")
    /\ console' = Append(console, MsgErrorLoading \o LoadMessage(file))
    /\ UNCHANGED <<file, df, user_input, reference_expressions, expr_idx,
                   row_idx, compiled_regex, results, origin,
                   related_expressions_df, exported>>

\* lines 82-83: load_data returns the frame
LoadData ==
    /\ pc = "load"
    /\ ~LoadRaises(file)
    /\ df' = load_data(file)
    /\ pc' = "preprocess"
    /\ UNCHANGED <<file, user_input, reference_expressions, expr_idx, row_idx,
                   compiled_regex, results, origin, related_expressions_df,
                   console, exported, error>>

\* line 42 on a column without strings: the .str accessor raises
PreprocessError ==
    /\ pc = "preprocess"
    /\ ~HasStrAccessor(df)
    /\ Raise("AttributeError")
    /\ UNCHANGED <<file, df, user_input, reference_expressions, expr_idx,
                   row_idx, compiled_regex, results, origin,
                   related_expressions_df, console, exported>>

\* line 89: df = preprocess_data(df)
PreprocessData ==
    /\ pc = "preprocess"
    /\ HasStrAccessor(df)
    /\ df' = preprocess_data(df)
    /\ pc' = "export_pre"
    /\ UNCHANGED <<file, user_input, reference_expressions, expr_idx, row_idx,
                   compiled_regex, results, origin, related_expressions_df,
                   console, exported, error>>

HasTextId(rows) == \A k \in DOMAIN rows : "text_id" \in DOMAIN rows[k]

\* Mutant: the output file is opened before the columns are selected, so the
\* KeyError leaves an empty file behind
ExportPreKeyErrorAfterOpen ==
    /\ pc = "export_pre"
    /\ ~HasTextId(df)
    /\ Raise("KeyError")
    /\ exported' = [exported EXCEPT !.pre = <<[header |-> <<>>, rows |-> <<>>]>>]
    /\ UNCHANGED <<file, df, user_input, reference_expressions, expr_idx,
                   row_idx, compiled_regex, results, origin,
                   related_expressions_df, console>>

\* line 93 on a frame without the column text_id: KeyError
ExportPreKeyError ==
    /\ pc = "export_pre"
    /\ ~HasTextId(df)
    /\ Raise("KeyError")
    /\ UNCHANGED <<file, df, user_input, reference_expressions, expr_idx,
                   row_idx, compiled_regex, results, origin,
                   related_expressions_df, console, exported>>

\* line 93: the output file cannot be written
ExportPreOSError ==
    /\ pc = "export_pre"
    /\ HasTextId(df)
    /\ Raise("OSError: preprocessed_data.txt")
    /\ UNCHANGED <<file, df, user_input, reference_expressions, expr_idx,
                   row_idx, compiled_regex, results, origin,
                   related_expressions_df, console, exported>>

\* lines 92-94: the normalized corpus is written
ExportPreprocessed ==
    /\ pc = "export_pre"
    /\ HasTextId(df)
    /\ exported' = [exported EXCEPT !.pre = <<to_csv(PreprocessedFrame(df))>>]
    /\ console' = Append(console, MsgPreExported)
    /\ pc' = "prompt"
    /\ UNCHANGED <<file, df, user_input, reference_expressions, expr_idx,
                   row_idx, compiled_regex, results, origin,
                   related_expressions_df, error>>

\* line 97: input() meets the end of the standard input
PromptEOFError ==
    /\ pc = "prompt"
    /\ Raise("EOFError")
    /\ UNCHANGED <<file, df, user_input, reference_expressions, expr_idx,
                   row_idx, compiled_regex, results, origin,
                   related_expressions_df, console, exported>>

\* lines 97-98: the line is read, split at the commas, each item wrapped
Prompt ==
    /\ pc = "prompt"
    /\ \E line \in InputLines :
        /\ user_input' = line
        /\ reference_expressions' = WrapAll(Split(line))
    /\ pc' = "retrieve"
    /\ UNCHANGED <<file, df, expr_idx, row_idx, compiled_regex, results, origin,
                   related_expressions_df, console, exported, error>>

\* line 57: results = []
RetrieveEnter ==
    /\ pc = "retrieve"
    /\ results' = <<>>
    /\ origin' = <<>>
    /\ expr_idx' = 1
    /\ pc' = "for_expression"
    /\ UNCHANGED <<file, df, user_input, reference_expressions, row_idx,
                   compiled_regex, related_expressions_df, console, exported,
                   error>>

\* lines 58-61: the next expression compiles
Compile ==
    /\ pc = "for_expression"
    /\ expr_idx <= Len(reference_expressions)
    /\ ~CompileRaises(reference_expressions[expr_idx])
    /\ compiled_regex' = reference_expressions[expr_idx]
    /\ row_idx' = 1
    /\ pc' = "for_row"
    /\ UNCHANGED <<file, df, user_input, reference_expressions, expr_idx,
                   results, origin, related_expressions_df, console, exported,
                   error>>

\* Mutant: the try around the whole loop, so that the first re.error ends it
CompileErrorAborts ==
    /\ pc = "for_expression"
    /\ expr_idx <= Len(reference_expressions)
    /\ CompileRaises(reference_expressions[expr_idx])
    /\ console' = Append(console, Diagnostic(reference_expressions[expr_idx]))
    /\ expr_idx' = Len(reference_expressions) + 1
    /\ UNCHANGED <<pc, file, df, user_input, reference_expressions, row_idx,
                   compiled_regex, results, origin, related_expressions_df,
                   exported, error>>

\* Mutant: except re.error: pass
CompileErrorSilent ==
    /\ pc = "for_expression"
    /\ expr_idx <= Len(reference_expressions)
    /\ CompileRaises(reference_expressions[expr_idx])
    /\ expr_idx' = expr_idx + 1
    /\ UNCHANGED <<pc, file, df, user_input, reference_expressions, row_idx,
                   compiled_regex, results, origin, related_expressions_df,
                   console, exported, error>>

\* lines 61, 72-73: re.compile raises re.error; the message is printed and the
\* loop goes on with the next expression
CompileError ==
    /\ pc = "for_expression"
    /\ expr_idx <= Len(reference_expressions)
    /\ CompileRaises(reference_expressions[expr_idx])
    /\ console' = Append(console, Diagnostic(reference_expressions[expr_idx]))
    /\ expr_idx' = expr_idx + 1
    /\ UNCHANGED <<pc, file, df, user_input, reference_expressions, row_idx,
                   compiled_regex, results, origin, related_expressions_df,
                   exported, error>>

\* Mutant: a record already in results is not reported again
RowMatchDedup ==
    /\ pc = "for_row"
    /\ row_idx <= Len(df)
    /\ LET row == df[row_idx]
           matches == findall(compiled_regex, row.cleaned_content)
           seen == \E a \in DOMAIN results : results[a].text_id = row.text_id
       IN  /\ matches # <<>>
           /\ results' = IF seen THEN results
                         ELSE Append(results,
                                     ResultRow(row, matches, reference_expressions[expr_idx]))
           /\ origin' = IF seen THEN origin
                        ELSE Append(origin,
                                    [expr |-> expr_idx, row |-> row_idx, matches |-> matches])
    /\ row_idx' = row_idx + 1
    /\ UNCHANGED <<pc, file, df, user_input, reference_expressions, expr_idx,
                   compiled_regex, related_expressions_df, console, exported,
                   error>>

\* lines 62-71: one row; a row with matches appends to results
RowMatch ==
    /\ pc = "for_row"
    /\ row_idx <= Len(df)
    /\ LET row == df[row_idx]
           matches == findall(compiled_regex, row.cleaned_content)
       IN  /\ matches # <<>>
           /\ results' = Append(results,
                                ResultRow(row, matches, reference_expressions[expr_idx]))
           /\ origin' = Append(origin,
                               [expr |-> expr_idx, row |-> row_idx, matches |-> matches])
    /\ row_idx' = row_idx + 1
    /\ UNCHANGED <<pc, file, df, user_input, reference_expressions, expr_idx,
                   compiled_regex, related_expressions_df, console, exported,
                   error>>

\* lines 62-65: one row without a match
RowNoMatch ==
    /\ pc = "for_row"
    /\ row_idx <= Len(df)
    /\ findall(compiled_regex, df[row_idx].cleaned_content) = <<>>
    /\ row_idx' = row_idx + 1
    /\ UNCHANGED <<pc, file, df, user_input, reference_expressions, expr_idx,
                   compiled_regex, results, origin, related_expressions_df,
                   console, exported, error>>

\* line 62: the rows are exhausted, on to the next expression
RowsDone ==
    /\ pc = "for_row"
    /\ row_idx > Len(df)
    /\ expr_idx' = expr_idx + 1
    /\ pc' = "for_expression"
    /\ UNCHANGED <<file, df, user_input, reference_expressions, row_idx,
                   compiled_regex, results, origin, related_expressions_df,
                   console, exported, error>>

\* line 76: return pd.DataFrame(results)
Return ==
    /\ pc = "for_expression"
    /\ expr_idx > Len(reference_expressions)
    /\ related_expressions_df' = DataFrame(results)
    /\ pc' = "export_res"
    /\ UNCHANGED <<file, df, user_input, reference_expressions, expr_idx,
                   row_idx, compiled_regex, results, origin, console, exported,
                   error>>

\* line 105: the output file cannot be written
ExportResultsOSError ==
    /\ pc = "export_res"
    /\ Raise("OSError: related_expressions_results.csv")
    /\ UNCHANGED <<file, df, user_input, reference_expressions, expr_idx,
                   row_idx, compiled_regex, results, origin,
                   related_expressions_df, console, exported>>

\* lines 104-107: the match results are written
ExportResults ==
    /\ pc = "export_res"
    /\ exported' = [exported EXCEPT !.res = <<to_csv(related_expressions_df)>>]
    /\ console' = Append(console, MsgResExported)
    /\ pc' = "done"
    /\ UNCHANGED <<file, df, user_input, reference_expressions, expr_idx,
                   row_idx, compiled_regex, results, origin,
                   related_expressions_df, error>>

Retrieve ==
    \/ RetrieveEnter
    \/ Compile
    \/ CompileError
    \/ RowMatch
    \/ RowNoMatch
    \/ RowsDone
    \/ Return

Next ==
    \/ LoadError
    \/ LoadData
    \/ PreprocessError
    \/ PreprocessData
    \/ ExportPreKeyError
    \/ ExportPreOSError
    \/ ExportPreprocessed
    \/ PromptEOFError
    \/ Prompt
    \/ Retrieve
    \/ ExportResultsOSError
    \/ ExportResults

NextNorm == PreprocessError \/ PreprocessData

\* main
Spec == Init /\ [][Next]_vars

\* preprocess_data alone
SpecNorm == InitNorm /\ [][NextNorm]_vars

\* retrieve_related_expressions alone
SpecMatch == InitMatch /\ [][Retrieve]_vars

\* retrieve_related_expressions on one record and one pattern
SpecFind == InitFind /\ [][Retrieve]_vars

----------------------------------------------------------------------------
(* Properties *)

\* x occurs in y as a contiguous part
IsInfix(x, y) ==
    \E k \in 0..(Len(y) - Len(x)) : SubSeq(y, k + 1, k + Len(x)) = x

\* an uppercase letter
IsUpper(c) == c \in UpperSet \/ c \in {"U+00C9", "U+212A", "U+0130"}

\* a letter a-z or a digit: the characters a word of a cleaned text is made of
IsAlnumLower(c) == c \in LowerSet \/ c \in Digits

\* a character the cleaned text may hold
IsCleanChar(c) == IsAlnumLower(c) \/ c \in Whitespace

\* the words of a cleaned text: its maximal runs of letters and digits, as the
\* pairs <<first, last>> of their positions
WordSpans(t) ==
    {w \in (1..Len(t)) \X (1..Len(t)) :
        /\ w[1] <= w[2]
        /\ \A k \in w[1]..w[2] : IsAlnumLower(t[k])
        /\ (w[1] = 1 \/ ~IsAlnumLower(t[w[1] - 1]))
        /\ (w[2] = Len(t) \/ ~IsAlnumLower(t[w[2] + 1]))}

WordSet(t) == {SubSeq(t, w[1], w[2]) : w \in WordSpans(t)}

\* the words of t that contain F, in the order of the text
RECURSIVE WordsContainingFrom(_, _, _)
WordsContainingFrom(t, F, from) ==
    LET later == {w \in WordSpans(t) :
                     w[1] >= from /\ IsInfix(F, SubSeq(t, w[1], w[2]))}
    IN  IF later = {} THEN <<>>
        ELSE LET w == CHOOSE x \in later : \A y \in later : x[1] <= y[1]
             IN  <<SubSeq(t, w[1], w[2])>> \o WordsContainingFrom(t, F, w[2] + 1)

WordsContaining(t, F) == WordsContainingFrom(t, F, 1)

HasWordContaining(t, F) == \E w \in WordSet(t) : IsInfix(F, w)

\* a fragment made of ASCII letters and digits only (possibly empty)
IsAlnumFragment(F) ==
    \A k \in DOMAIN F : F[k] \in LowerSet \/ F[k] \in UpperSet \/ F[k] \in Digits

Valid(i) == ~CompileRaises(reference_expressions[i])

RowsOf(i) == {a \in DOMAIN origin : origin[a].expr = i}

Returned == pc \in {"export_res", "done"}

----------------------------------------------------------------------------
(* C1, C9: preprocess_data *)

\* C1: after preprocess_data every cleaned_content holds only letters a-z,
\* digits and whitespace, no uppercase letter; for a str content it is the
\* lowercased raw text with the other characters left out, the kept characters
\* in their order.
C1_CleanedIsNormalized ==
    pc = "export_pre" =>
        \A k \in DOMAIN df :
            LET raw == df[k].content
                out == df[k].cleaned_content
            IN  /\ \A n \in DOMAIN out : IsCleanChar(out[n]) /\ ~IsUpper(out[n])
                /\ raw.kind = "str" =>
                     LET low == StrLower(raw.s)
                         kept == {n \in DOMAIN low : IsCleanChar(low[n])}
                     IN  /\ Len(out) = Cardinality(kept)
                         /\ \A n \in kept :
                               out[Cardinality({m \in kept : m <= n})] = low[n]

\* a raw text with an uppercase letter, punctuation, a digit and an underscore
\* has been cleaned
C1_Witness ==
    /\ pc = "export_pre"
    /\ \E k \in DOMAIN df :
        /\ df[k].content = Str(<<"A", "!", "7", "_", "b">>)
        /\ df[k].cleaned_content = <<"a", "7", "b">>

\* C9: once preprocess_data has been called, every record whose content is not
\* a str has as cleaned_content the cleaned form of str(content).
C9_NonStringKeepsOwnText ==
    (pc \notin {"load", "preprocess"} /\ error # "LoadError") =>
        \A k \in DOMAIN df :
            df[k].content.kind # "str" =>
                /\ "cleaned_content" \in DOMAIN df[k]
                /\ df[k].cleaned_content = ReSub(StrLower(PyStr(df[k].content)))

----------------------------------------------------------------------------
(* C5, C6: main *)

\* C5: when the list of results is empty, the frame the retrieval returns has
\* no row and the four columns, and the exported file carries that header.
C5_EmptyTableHasColumns ==
    (Returned /\ results = <<>>) =>
        /\ related_expressions_df.rows = <<>>
        /\ related_expressions_df.columns = ResultColumns
        /\ pc = "done" => exported.res[1].header = ResultColumns

\* C6: a run that ended in a fatal error has written neither export.
C6_FatalWritesNothing ==
    pc = "fatal" => exported.pre = NoFile /\ exported.res = NoFile

\* C6 as amended: a run that ended in a fatal error raised up to the opening
\* of the match-results file has not written the match results; it has not
\* written the normalized corpus when the error came from load_data, from
\* preprocess_data or from the export of the normalized corpus itself, and it
\* has written it when the error came from a later step.
C6_FatalBeforeExport ==
    pc = "fatal" =>
        /\ exported.res = NoFile
        /\ error \in {"LoadError", "AttributeError", "KeyError",
                      "OSError: preprocessed_data.txt"}
              => exported.pre = NoFile
        /\ error \in {"EOFError", "OSError: related_expressions_results.csv"}
              => exported.pre = <<to_csv(PreprocessedFrame(df))>>

\* a frame without the column text_id made the export of line 93 raise
C6_Witness ==
    /\ pc = "fatal"
    /\ error = "KeyError"
    /\ \A k \in DOMAIN df : "cleaned_content" \in DOMAIN df[k]
    /\ exported.pre = NoFile

----------------------------------------------------------------------------
(* C2, C3, C4, C7: retrieve_related_expressions over a list of patterns *)

\* the rows one pattern gives over the frame, in the order of the frame
RECURSIVE RowsFor(_, _)
RowsFor(expression, j) ==
    IF j > Len(df) THEN <<>>
    ELSE LET matches == findall(expression, df[j].cleaned_content)
         IN  (IF matches = <<>> THEN <<>>
              ELSE <<ResultRow(df[j], matches, expression)>>)
             \o RowsFor(expression, j + 1)

\* the rows a list of patterns that all compile gives
RECURSIVE RowsForAll(_)
RowsForAll(expressions) ==
    IF expressions = <<>> THEN <<>>
    ELSE RowsFor(Head(expressions), 1) \o RowsForAll(Tail(expressions))

\* C2: for each pattern that compiles, the number of rows emitted for it is
\* the number of records whose cleaned text has a word that contains the
\* fragment.
C2_CountIsRecordsWithWord ==
    Returned =>
        \A i \in DOMAIN reference_expressions :
            Valid(i) =>
                Cardinality(RowsOf(i)) =
                    Cardinality({j \in DOMAIN df :
                        HasWordContaining(df[j].cleaned_content,
                                          Fragment(reference_expressions[i]))})

\* C2 as amended: the same, for each pattern whose fragment is made of letters
\* and digits only.
C2_CountForAlnumFragment ==
    Returned =>
        \A i \in DOMAIN reference_expressions :
            IsAlnumFragment(Fragment(reference_expressions[i])) =>
                Cardinality(RowsOf(i)) =
                    Cardinality({j \in DOMAIN df :
                        HasWordContaining(df[j].cleaned_content,
                                          Fragment(reference_expressions[i]))})

\* a pattern with a one-letter fragment gave a row for one record and none for
\* another
C2_Witness ==
    /\ Returned
    /\ \E i \in DOMAIN reference_expressions :
        /\ Fragment(reference_expressions[i]) = <<"b">>
        /\ Cardinality(RowsOf(i)) = 1
        /\ Len(df) = 2

\* C3: the retrieval ends without error; no row comes from a pattern that does
\* not compile, and the rows are those, in that order, of the list with these
\* patterns taken out.
C3_InvalidPatternsLeaveNoTrace ==
    /\ error = "none"
    /\ \A a \in DOMAIN origin : Valid(origin[a].expr)
    /\ Returned =>
          results = RowsForAll(SelectSeq(reference_expressions,
                                         LAMBDA e : ~CompileRaises(e)))

\* a list whose first pattern does not compile gave the rows of its second
C3_Witness ==
    /\ Returned
    /\ Len(reference_expressions) = 2
    /\ ~Valid(1)
    /\ Valid(2)
    /\ results # <<>>
    /\ results = RowsFor(reference_expressions[2], 1)

\* C4: at every step the results are in the order of (pattern, record), each
\* built from its pattern and its record; a pair of a pattern and a record
\* with a match gets its row at the end of results when the loop goes through
\* it, and when the retrieval returns every such pair has its own row.
C4_OrderedByPatternThenRecord ==
    /\ Len(origin) = Len(results)
    /\ \A a, b \in DOMAIN origin :
          a < b => \/ origin[a].expr < origin[b].expr
                   \/ /\ origin[a].expr = origin[b].expr
                      /\ origin[a].row < origin[b].row
    /\ \A a \in DOMAIN origin :
          /\ results[a].reference_expression = reference_expressions[origin[a].expr]
          /\ results[a].text_id = df[origin[a].row].text_id
          /\ results[a].original_content = df[origin[a].row].content
    /\ pc = "for_row" /\ row_idx > 1 =>
          LET last == [expr |-> expr_idx, row |-> row_idx - 1]
          IN  findall(reference_expressions[last.expr],
                      df[last.row].cleaned_content) # <<>>
              => /\ origin # <<>>
                 /\ origin[Len(origin)].expr = last.expr
                 /\ origin[Len(origin)].row = last.row
    /\ Returned =>
          \A i \in DOMAIN reference_expressions, j \in DOMAIN df :
              (Valid(i) /\ findall(reference_expressions[i],
                                   df[j].cleaned_content) # <<>>)
              => \E a \in DOMAIN origin : origin[a].expr = i /\ origin[a].row = j

\* one record has a row for each of two patterns, after the row of another
\* record for the first pattern
C4_Witness ==
    /\ Returned
    /\ \E a, b, c \in DOMAIN origin :
        /\ a < b /\ b < c
        /\ origin[a].expr = 1 /\ origin[b].expr = 1 /\ origin[c].expr = 2
        /\ origin[a].row = 1 /\ origin[b].row = 2 /\ origin[c].row = 1
        /\ reference_expressions[1] # reference_expressions[2]

\* the diagnostics printed so far
Diagnostics ==
    SelectSeq(console,
              LAMBDA m : /\ Len(m) >= Len(MsgInvalidRegex)
                         /\ SubSeq(m, 1, Len(MsgInvalidRegex)) = MsgInvalidRegex)

\* the patterns gone through that did not compile, in the order of the list
FailedSoFar ==
    SelectSeq(SubSeq(reference_expressions, 1,
                     IF expr_idx = 0 THEN 0 ELSE expr_idx - 1),
              LAMBDA e : CompileRaises(e))

----------------------------------------------------------------------------
(* C8, C10: the matched substrings *)

\* the words joined by a comma and a blank
CommaSeparated(words) ==
    Flatten([k \in DOMAIN words |->
                IF k = 1 THEN words[k] ELSE <<",", " ">> \o words[k]])

ExampleCleaned ==
    <<"r","u","n","n","i","n","g"," ","a","n","d"," ","j","u","m","p","e","d">>

\* C8: for a fragment of lowercase letters and digits, not empty, the matched
\* substrings of a record are the words of its cleaned text that contain the
\* fragment, each occurrence once, in the order of the text, joined by a
\* comma and a blank; a record without such a word has no row.  The record
\* "Running and jumped" is cleaned to "running and jumped" and the fragment
\* "ing" gives the one row with the match "running".
C8_MatchesAreWordsContaining ==
    LET F == Fragment(reference_expressions[1])
        t == df[1].cleaned_content
        words == WordsContaining(t, F)
    IN  /\ (Returned /\ F # <<>> /\ \A k \in DOMAIN F : IsAlnumLower(F[k])) =>
              IF words = <<>> THEN results = <<>>
              ELSE /\ Len(results) = 1
                   /\ origin[1].matches = words
                   /\ results[1].text_id = df[1].text_id
                   /\ results[1].matched_expressions = CommaSeparated(words)
        /\ df[1].content = Str(ExampleText) => t = ExampleCleaned
        /\ (Returned /\ df[1].content = Str(ExampleText) /\ F = ExampleFragment) =>
              /\ Len(results) = 1
              /\ origin[1].matches = <<<<"r","u","n","n","i","n","g">>>>

\* a text with two words that contain the fragment gave one row that joins
\* the two
C8_Witness ==
    /\ Returned
    /\ df[1].content = Str(<<"A", "b", " ", "b">>)
    /\ Fragment(reference_expressions[1]) = <<"b">>
    /\ Len(results) = 1
    /\ results[1].matched_expressions = <<"a", "b", ",", " ", "b">>

\* C10: every element of results carries the text_id and the content of a
\* record of the frame, has at least one matched substring, and each of its
\* matched substrings is a word, not empty, of the cleaned text of that record.
C10_MatchesAreWords ==
    \A a \in DOMAIN results :
        /\ \E j \in DOMAIN df :
              /\ df[j].text_id = results[a].text_id
              /\ df[j].content = results[a].original_content
        /\ origin[a].matches # <<>>
        /\ \A m \in DOMAIN origin[a].matches :
              /\ origin[a].matches[m] # <<>>
              /\ origin[a].matches[m] \in WordSet(df[origin[a].row].cleaned_content)

====
